---- MODULE Spec2Model ----
(***************************************************************************)
(* Model of main.py: the grid heuristic, the Graph store, path             *)
(* reconstruction and the unified Dijkstra / A* best-first search.         *)
(*                                                                         *)
(* Costs are integers.  calculate_heuristic returns a float in the source; *)
(* the model returns it truncated to a whole cost unit, which is exact     *)
(* whenever the two squares lie in one row or one column (the families of  *)
(* graphs searched below only use such squares).                           *)
(***************************************************************************)
EXTENDS Integers, Sequences, FiniteSets, TLC

VARIABLES
    nodes,            \* graph.nodes : node_id -> square_id
    edges,            \* graph.edges : node_id -> sequence of <<neighbor, weight>>
    start_node,       \* argument of run_search
    end_node,         \* argument of run_search
    algorithm,        \* argument of run_search: "dijkstra" or "astar"
    pq,               \* the heap, kept as the ascending sequence of its <<priority, node>> entries
    g_score,          \* best known cost to reach each node
    came_from,        \* parent of each discovered node
    visited,          \* set of finalized nodes
    nodes_expanded,   \* expansion counter
    pc,               \* run_search: "search" | "done" | "error"; calculate_heuristic: "heuristic" | "returned"
    result,           \* record returned by the current run_search call, None before it returns
    dijkstra_result,  \* record returned by the "dijkstra" call once the "astar" call runs
    h_args,           \* arguments of a direct calculate_heuristic call
    h_value           \* value returned by that call

vars == <<nodes, edges, start_node, end_node, algorithm, pq, g_score, came_from,
          visited, nodes_expanded, pc, result, dijkstra_result, h_args, h_value>>

graph_vars == <<nodes, edges, start_node, end_node>>
heur_vars == <<h_args, h_value>>

None == "None"

(***************************************************************************)
(* Bounds of the model                                                     *)
(***************************************************************************)
\* node ids 0..MaxNode of the exhaustive family (adjacency lists in every order,
\* self-loops and parallel edges included)
MaxNode == 2
\* at most MaxEdges add_edge calls in the exhaustive family
MaxEdges == 2
\* node ids 0..WideNode of the wide family (simple digraphs, node 0 a source)
WideNode == 3
\* at most WideEdges add_edge calls in the wide family
WideEdges == 4
\* square ids 0..MaxSquare given to a direct calculate_heuristic call
MaxSquare == 99

\* edge weights used by the graphs
Weights == {0, 1000}
\* squares used by the graphs: one row, heuristic 0 or 1000 between them
SquareIds == {0, 2}

(***************************************************************************)
(* calculate_heuristic                                                     *)
(***************************************************************************)
Abs(x) == IF x < 0 THEN -x ELSE x

Max(a, b) == IF a > b THEN a ELSE b

Min(a, b) == IF a < b THEN a ELSE b

RECURSIVE SqrtSearch(_, _, _)
\* the largest r in lo..hi with r*r <= n
SqrtSearch(n, lo, hi) ==
    IF lo >= hi THEN lo
    ELSE LET mid == (lo + hi + 1) \div 2
         IN  IF mid * mid <= n THEN SqrtSearch(n, mid, hi)
                               ELSE SqrtSearch(n, lo, mid - 1)

\* math.sqrt, truncated to an integer
Sqrt(n) == SqrtSearch(n, 0, Min(n, 46340))

\* calculate_heuristic without the clamp of the deltas at zero
calculate_heuristic_NoClamp(current_square_id, goal_square_id) ==
    LET row_start == current_square_id \div 10
        col_start == current_square_id % 10
        row_goal  == goal_square_id \div 10
        col_goal  == goal_square_id % 10
        delta_row == Abs(row_start - row_goal)
        delta_col == Abs(col_start - col_goal)
        y_dist    == (delta_row - 1) * 10
        x_dist    == (delta_col - 1) * 10
    IN  \* sqrt(x_dist ** 2 + y_dist ** 2) * 100.0
        Sqrt((x_dist * x_dist + y_dist * y_dist) * 100 * 100)

calculate_heuristic(current_square_id, goal_square_id) ==
    LET row_start == current_square_id \div 10
        col_start == current_square_id % 10
        row_goal  == goal_square_id \div 10
        col_goal  == goal_square_id % 10
        delta_row == Abs(row_start - row_goal)
        delta_col == Abs(col_start - col_goal)
        y_dist    == Max(0, delta_row - 1) * 10
        x_dist    == Max(0, delta_col - 1) * 10
    IN  \* sqrt(x_dist ** 2 + y_dist ** 2) * 100.0
        Sqrt((x_dist * x_dist + y_dist * y_dist) * 100 * 100)

(***************************************************************************)
(* Graph                                                                   *)
(***************************************************************************)
\* dict assignment d[k] = v
Put(d, k, v) == [x \in (DOMAIN d) \cup {k} |-> IF x = k THEN v ELSE d[x]]

EmptyGraph == [nodes |-> <<>>, edges |-> <<>>]

add_node(g, node_id, square_id) ==
    [nodes |-> Put(g.nodes, node_id, square_id),
     edges |-> IF node_id \in DOMAIN g.edges THEN g.edges
               ELSE Put(g.edges, node_id, <<>>)]

\* self.edges[u] raises KeyError for an undeclared u: callers add the node first
add_edge(g, u, v, dist) ==
    [g EXCEPT !.edges = Put(g.edges, u, Append(g.edges[u], <<v, dist>>))]

\* self.nodes.get(node_id)
get_square(node_id) == IF node_id \in DOMAIN nodes THEN nodes[node_id] ELSE None

(***************************************************************************)
(* reconstruct_path and the heap                                           *)
(***************************************************************************)
RECURSIVE reconstruct_path_Unreversed(_, _)
\* reconstruct_path that returns total_path without reversing it
reconstruct_path_Unreversed(cf, current) ==
    IF current \in DOMAIN cf
    THEN <<current>> \o reconstruct_path_Unreversed(cf, cf[current])
    ELSE <<current>>

RECURSIVE reconstruct_path(_, _)
\* total_path[::-1]: the chain of parents of current, oldest first
reconstruct_path(cf, current) ==
    IF current \in DOMAIN cf
    THEN Append(reconstruct_path(cf, cf[current]), current)
    ELSE <<current>>

\* Python's tuple comparison of two (priority, node) entries
TupleLess(a, b) == a[1] < b[1] \/ (a[1] = b[1] /\ a[2] < b[2])

\* heappush that forgets the entries already queued
heappush_Replace(q, e) == <<e>>

RECURSIVE heappush(_, _)
\* heapq.heappush: the entry takes its place in ascending order
heappush(q, e) ==
    IF q = <<>> THEN <<e>>
    ELSE IF TupleLess(e, Head(q)) THEN <<e>> \o q
    ELSE <<Head(q)>> \o heappush(Tail(q), e)

(***************************************************************************)
(* run_search                                                              *)
(***************************************************************************)
end_square == get_square(end_node)

\* Priority that subtracts the heuristic in "astar" mode
Priority_MinusHeuristic(tentative_g, neighbor) ==
    IF algorithm = "astar"
    THEN tentative_g - calculate_heuristic(get_square(neighbor), end_square)
    ELSE tentative_g

\* priority of a push; the heuristic is only called for "astar"
Priority(tentative_g, neighbor) ==
    IF algorithm = "astar"
    THEN tentative_g + calculate_heuristic(get_square(neighbor), end_square)
    ELSE tentative_g

\* get_square gave None for the neighbor or for the goal: calculate_heuristic
\* raises TypeError at its first '//'
HeuristicRaises(neighbor) ==
    algorithm = "astar" /\ (neighbor \notin DOMAIN nodes \/ end_node \notin DOMAIN nodes)

RECURSIVE Relax_FirstOnly(_, _, _)
\* Relax that never lowers a cost already recorded
Relax_FirstOnly(adj, current_node, s) ==
    IF adj = <<>> \/ s.err THEN s
    ELSE LET neighbor    == Head(adj)[1]
             weight      == Head(adj)[2]
             tentative_g == s.g[current_node] + weight
         IN  IF neighbor \notin DOMAIN s.g
             THEN LET cf == Put(s.cf, neighbor, current_node)
                      g  == Put(s.g, neighbor, tentative_g)
                  IN  IF HeuristicRaises(neighbor)
                      THEN [g |-> g, cf |-> cf, q |-> s.q, err |-> TRUE]
                      ELSE Relax_FirstOnly(Tail(adj), current_node,
                                 [g |-> g, cf |-> cf,
                                  q |-> heappush(s.q, <<Priority(tentative_g, neighbor), neighbor>>),
                                  err |-> FALSE])
             ELSE Relax_FirstOnly(Tail(adj), current_node, s)

RECURSIVE Relax_AlwaysParent(_, _, _)
\* Relax that records the parent before comparing costs
Relax_AlwaysParent(adj, current_node, s) ==
    IF adj = <<>> \/ s.err THEN s
    ELSE LET neighbor    == Head(adj)[1]
             weight      == Head(adj)[2]
             tentative_g == s.g[current_node] + weight
         IN  IF neighbor \notin DOMAIN s.g \/ tentative_g < s.g[neighbor]
             THEN LET cf == Put(s.cf, neighbor, current_node)
                      g  == Put(s.g, neighbor, tentative_g)
                  IN  IF HeuristicRaises(neighbor)
                      THEN [g |-> g, cf |-> cf, q |-> s.q, err |-> TRUE]
                      ELSE Relax_AlwaysParent(Tail(adj), current_node,
                                 [g |-> g, cf |-> cf,
                                  q |-> heappush(s.q, <<Priority(tentative_g, neighbor), neighbor>>),
                                  err |-> FALSE])
             ELSE Relax_AlwaysParent(Tail(adj), current_node,
                                     [s EXCEPT !.cf = Put(s.cf, neighbor, current_node)])

RECURSIVE Relax_OrEqual(_, _, _)
\* Relax that also takes a path of equal cost
Relax_OrEqual(adj, current_node, s) ==
    IF adj = <<>> \/ s.err THEN s
    ELSE LET neighbor    == Head(adj)[1]
             weight      == Head(adj)[2]
             tentative_g == s.g[current_node] + weight
         IN  IF neighbor \notin DOMAIN s.g \/ tentative_g <= s.g[neighbor]
             THEN LET cf == Put(s.cf, neighbor, current_node)
                      g  == Put(s.g, neighbor, tentative_g)
                  IN  IF HeuristicRaises(neighbor)
                      THEN [g |-> g, cf |-> cf, q |-> s.q, err |-> TRUE]
                      ELSE Relax_OrEqual(Tail(adj), current_node,
                                 [g |-> g, cf |-> cf,
                                  q |-> heappush(s.q, <<Priority(tentative_g, neighbor), neighbor>>),
                                  err |-> FALSE])
             ELSE Relax_OrEqual(Tail(adj), current_node, s)

RECURSIVE Relax(_, _, _)
\* the for loop over graph.edges[current_node]; s = [g, cf, q, err]
Relax(adj, current_node, s) ==
    IF adj = <<>> \/ s.err THEN s
    ELSE LET neighbor    == Head(adj)[1]
             weight      == Head(adj)[2]
             tentative_g == s.g[current_node] + weight
         IN  IF neighbor \notin DOMAIN s.g \/ tentative_g < s.g[neighbor]
             THEN LET cf == Put(s.cf, neighbor, current_node)
                      g  == Put(s.g, neighbor, tentative_g)
                  IN  IF HeuristicRaises(neighbor)
                      THEN [g |-> g, cf |-> cf, q |-> s.q, err |-> TRUE]
                      ELSE Relax(Tail(adj), current_node,
                                 [g |-> g, cf |-> cf,
                                  q |-> heappush(s.q, <<Priority(tentative_g, neighbor), neighbor>>),
                                  err |-> FALSE])
             ELSE Relax(Tail(adj), current_node, s)

\* the entry heappop returns, and the state after relaxing its node's edges
current_node == Head(pq)[2]

Relaxed ==
    Relax(IF current_node \in DOMAIN edges THEN edges[current_node] ELSE <<>>,
          current_node,
          [g |-> g_score, cf |-> came_from, q |-> Tail(pq), err |-> FALSE])

\* lines 64-70: the locals of a fresh run_search call
SearchEntry(alg) ==
    /\ algorithm' = alg
    /\ pq' = <<<<0, start_node>>>>
    /\ g_score' = [n \in {start_node} |-> 0]
    /\ came_from' = <<>>
    /\ visited' = {}
    /\ nodes_expanded' = 0
    /\ result' = None
    /\ pc' = "search"

\* lines 76-77: a popped node that is already finalized is skipped
SkipVisited ==
    /\ pc = "search" /\ pq # <<>>
    /\ current_node \in visited
    /\ pq' = Tail(pq)
    /\ UNCHANGED <<graph_vars, heur_vars, algorithm, g_score, came_from, visited,
                   nodes_expanded, pc, result, dijkstra_result>>

\* ReturnFound with the counter incremented before the goal test
ReturnFound_CountsGoal ==
    /\ pc = "search" /\ pq # <<>>
    /\ current_node \notin visited
    /\ current_node = end_node
    /\ pq' = Tail(pq)
    /\ visited' = visited \cup {current_node}
    /\ result' = [found |-> TRUE,
                  distance |-> g_score[current_node],
                  path |-> reconstruct_path(came_from, current_node),
                  nodes_expanded |-> nodes_expanded + 1]
    /\ pc' = "done"
    /\ nodes_expanded' = nodes_expanded + 1
    /\ UNCHANGED <<graph_vars, heur_vars, algorithm, g_score, came_from,
                   dijkstra_result>>

\* lines 78-86: the popped node is the goal
ReturnFound ==
    /\ pc = "search" /\ pq # <<>>
    /\ current_node \notin visited
    /\ current_node = end_node
    /\ pq' = Tail(pq)
    /\ visited' = visited \cup {current_node}
    /\ result' = [found |-> TRUE,
                  distance |-> g_score[current_node],
                  path |-> reconstruct_path(came_from, current_node),
                  nodes_expanded |-> nodes_expanded]
    /\ pc' = "done"
    /\ UNCHANGED <<graph_vars, heur_vars, algorithm, g_score, came_from,
                   nodes_expanded, dijkstra_result>>

\* lines 78-105: the popped node is expanded
Expand ==
    /\ pc = "search" /\ pq # <<>>
    /\ current_node \notin visited
    /\ current_node # end_node
    /\ ~Relaxed.err
    /\ visited' = visited \cup {current_node}
    /\ nodes_expanded' = nodes_expanded + 1
    /\ g_score' = Relaxed.g
    /\ came_from' = Relaxed.cf
    /\ pq' = Relaxed.q
    /\ UNCHANGED <<graph_vars, heur_vars, algorithm, pc, result, dijkstra_result>>

\* lines 101-102: the heuristic is called on a missing square and raises
RaiseTypeError ==
    /\ pc = "search" /\ pq # <<>>
    /\ current_node \notin visited
    /\ current_node # end_node
    /\ Relaxed.err
    /\ visited' = visited \cup {current_node}
    /\ nodes_expanded' = nodes_expanded + 1
    /\ g_score' = Relaxed.g
    /\ came_from' = Relaxed.cf
    /\ pq' = Relaxed.q
    /\ pc' = "error"
    /\ UNCHANGED <<graph_vars, heur_vars, algorithm, result, dijkstra_result>>

\* line 108: the queue is exhausted
ReturnNotFound ==
    /\ pc = "search" /\ pq = <<>>
    /\ result' = [found |-> FALSE, nodes_expanded |-> nodes_expanded]
    /\ pc' = "done"
    /\ UNCHANGED <<graph_vars, heur_vars, algorithm, pq, g_score, came_from, visited,
                   nodes_expanded, dijkstra_result>>

\* lines 200-210: the caller keeps the Dijkstra result and runs A* on the same graph
RunAstar ==
    /\ pc = "done" /\ algorithm = "dijkstra"
    /\ dijkstra_result' = result
    /\ SearchEntry("astar")
    /\ UNCHANGED <<graph_vars, heur_vars>>

\* a direct call calculate_heuristic(a, b)
CallHeuristic ==
    /\ pc = "heuristic"
    /\ h_value' = calculate_heuristic(h_args[1], h_args[2])
    /\ pc' = "returned"
    /\ UNCHANGED <<graph_vars, algorithm, pq, g_score, came_from, visited,
                   nodes_expanded, result, dijkstra_result, h_args>>

(***************************************************************************)
(* Graphs the searches run on                                              *)
(***************************************************************************)
\* add_edge(u, v, dist) may follow graph g; in a simple graph the adjacency
\* lists have no self-loop and strictly ascending neighbors
Allowed(g, c, simple) ==
    /\ c[1] \in DOMAIN g.edges
    /\ simple => /\ c[1] # c[2]
                 /\ \/ g.edges[c[1]] = <<>>
                    \/ g.edges[c[1]][Len(g.edges[c[1]])][1] < c[2]

RECURSIVE WithEdges(_, _, _, _)
\* the graphs that at most k add_edge calls drawn from calls make of the graphs gs
WithEdges(gs, calls, k, simple) ==
    IF k = 0 THEN gs
    ELSE LET more == WithEdges(gs, calls, k - 1, simple)
         IN  more \cup {add_edge(g, c[1], c[2], c[3]) :
                          <<g, c>> \in {x \in more \X calls : Allowed(x[1], x[2], simple)}}

RECURSIVE Declared(_, _)
\* add_node(id, 0) for every id of ids
Declared(g, ids) ==
    IF ids = {} THEN g
    ELSE LET id == CHOOSE x \in ids : TRUE
         IN  Declared(add_node(g, id, 0), ids \ {id})

\* exhaustive family: every sequence of at most MaxEdges add_edge calls
SmallGraphs ==
    WithEdges({Declared(EmptyGraph, 0..MaxNode)},
              (0..MaxNode) \X (0..MaxNode) \X Weights, MaxEdges, FALSE)

\* wide family: simple digraphs in which no edge enters node 0
WideGraphs ==
    WithEdges({Declared(EmptyGraph, 0..WideNode)},
              (0..WideNode) \X (1..WideNode) \X Weights, WideEdges, TRUE)

\* a fresh run_search(graph, s, t, "dijkstra") on graph g with squares sq
Begin(g, sq, s, t) ==
    /\ nodes = sq
    /\ edges = g.edges
    /\ start_node = s
    /\ end_node = t
    /\ algorithm = "dijkstra"
    /\ pq = <<<<0, s>>>>
    /\ g_score = [n \in {s} |-> 0]
    /\ came_from = <<>>
    /\ visited = {}
    /\ nodes_expanded = 0
    /\ result = None
    /\ dijkstra_result = None
    /\ pc = "search"
    /\ h_args = None
    /\ h_value = None

InitSmall ==
    \E g \in SmallGraphs, sq \in [0..MaxNode -> SquareIds],
       s \in 0..MaxNode, t \in 0..MaxNode : Begin(g, sq, s, t)

InitWide ==
    \E g \in WideGraphs, sq \in [0..WideNode -> SquareIds], t \in 1..WideNode :
        /\ sq[0] = 0
        /\ Begin(g, sq, 0, t)

Init == InitSmall \/ InitWide

Next ==
    \/ SkipVisited
    \/ ReturnFound
    \/ Expand
    \/ ReturnNotFound
    \/ RunAstar

Spec == Init /\ [][Next]_vars

\* graphs in which only the ids of D were declared: edges may point anywhere
UnknownGraphs(D) ==
    WithEdges({Declared(EmptyGraph, D)},
              (0..MaxNode) \X (0..MaxNode) \X Weights, MaxEdges, FALSE)

\* run_search called directly, on ids the graph may not know
InitUnknown ==
    \E D \in SUBSET (0..MaxNode) :
        \E g \in UnknownGraphs(D), sq \in [D -> SquareIds],
           s \in 0..MaxNode, t \in 0..MaxNode : Begin(g, sq, s, t)

NextUnknown ==
    \/ Next
    \/ RaiseTypeError

SpecUnknown == InitUnknown /\ [][NextUnknown]_vars

\* calculate_heuristic called directly on two squares
InitHeuristic ==
    \E a \in 0..MaxSquare, b \in 0..MaxSquare :
        /\ h_args = <<a, b>>
        /\ h_value = None
        /\ pc = "heuristic"
        /\ nodes = <<>> /\ edges = <<>>
        /\ start_node = 0 /\ end_node = 0
        /\ algorithm = "astar"
        /\ pq = <<>> /\ g_score = <<>> /\ came_from = <<>>
        /\ visited = {} /\ nodes_expanded = 0
        /\ result = None /\ dijkstra_result = None

NextHeuristic == CallHeuristic

SpecHeuristic == InitHeuristic /\ [][NextHeuristic]_vars

(***************************************************************************)
(* Reference notions the properties are stated with                        *)
(***************************************************************************)
\* larger than every path cost of the graphs above
Infinity == 1000000

\* every node id the graph or the call mentions
AllNodes ==
    (DOMAIN edges) \cup {start_node, end_node}
      \cup UNION {{edges[u][i][1] : i \in 1..Len(edges[u])} : u \in DOMAIN edges}

\* the edges as <<from, to, weight>> triples
Arcs ==
    UNION {{<<u, edges[u][i][1], edges[u][i][2]>> : i \in 1..Len(edges[u])} :
             u \in DOMAIN edges}

\* the weights of the edges from u to v
EdgeWeights(u, v) == {a[3] : a \in {x \in Arcs : x[1] = u /\ x[2] = v}}

RECURSIVE MinOver(_, _, _, _)
\* the least of best and d[from] + weight over the arcs of A that end in n
MinOver(A, d, n, best) ==
    IF A = {} THEN best
    ELSE LET a == CHOOSE x \in A : TRUE
             c == d[a[1]] + a[3]
         IN  MinOver(A \ {a}, d, n, IF a[2] = n /\ c < best THEN c ELSE best)

RECURSIVE BellmanFord(_, _, _, _)
\* k rounds of relaxation over the arcs A: d[n] becomes the cheapest cost of a
\* path of A from the source to n (Infinity and above: none)
BellmanFord(V, A, d, k) ==
    IF k = 0 THEN d
    ELSE BellmanFord(V, A, [n \in V |-> MinOver(A, d, n, d[n])], k - 1)

\* true cheapest cost from start_node to every node (Infinity: unreachable)
DistFromStart ==
    LET V == AllNodes
    IN  BellmanFord(V, Arcs, [n \in V |-> IF n = start_node THEN 0 ELSE Infinity],
                    Cardinality(V))

\* true cheapest cost from every node to end_node
DistToGoal ==
    LET V == AllNodes
    IN  BellmanFord(V, {<<a[2], a[1], a[3]>> : a \in Arcs},
                    [n \in V |-> IF n = end_node THEN 0 ELSE Infinity],
                    Cardinality(V))

Reachable == DistFromStart[end_node] < Infinity

\* the heuristic value the search uses for node n
H(n) == calculate_heuristic(nodes[n], nodes[end_node])

\* the heuristic never exceeds the true remaining cost
Admissible == LET d == DistToGoal IN \A n \in DOMAIN nodes : H(n) <= d[n]

\* the heuristic obeys the triangle inequality on every edge
Consistent ==
    \A u \in DOMAIN edges : \A i \in 1..Len(edges[u]) :
        H(u) <= edges[u][i][2] + H(edges[u][i][1])

Returned(alg) == pc = "done" /\ algorithm = alg

(***************************************************************************)
(* C1: with an admissible heuristic and a reachable goal, the "astar" call *)
(* returns the same distance as the "dijkstra" call on the same graph.     *)
(***************************************************************************)
C1_SameDistance ==
    (Returned("astar") /\ Admissible /\ Reachable)
        => /\ dijkstra_result.found
           /\ result.found
           /\ result.distance = dijkstra_result.distance

(***************************************************************************)
(* C2: in "dijkstra" mode a reachable goal is found at its true cheapest   *)
(* cost, and every finalized node carries its true cheapest cost.          *)
(***************************************************************************)
C2_DijkstraOptimal ==
    algorithm = "dijkstra" =>
        LET d == DistFromStart
        IN  /\ \A n \in visited : g_score[n] = d[n]
            /\ (pc = "done" /\ d[end_node] < Infinity) =>
                   /\ result.found
                   /\ result.distance = d[end_node]

\* a cheaper path replaced a first one, and the goal was found
C2_Witness ==
    /\ Returned("dijkstra") /\ result.found
    /\ \E n \in DOMAIN came_from :
          /\ came_from[n] # start_node
          /\ EdgeWeights(start_node, n) # {}
    /\ result.distance > 0

\* the A* call returned a dearer distance than the Dijkstra call
C1_Diverged ==
    /\ Returned("astar") /\ Admissible /\ Reachable
    /\ result.found /\ dijkstra_result.found
    /\ result.distance > dijkstra_result.distance

NoTieWithGoal ==
    LET d == DistFromStart
    IN  d[end_node] < Infinity =>
            \A n \in AllNodes \ {start_node, end_node} : d[n] # d[end_node]

C4_FoundIffPath ==
    pc = "done" =>
        /\ result.found <=> Reachable
        /\ ~result.found =>
              /\ pq = <<>>
              /\ result = [found |-> FALSE, nodes_expanded |-> Cardinality(visited)]

\* an A* call that expanded several nodes and found no path
C4_Witness ==
    /\ Returned("astar") /\ ~result.found
    /\ result.nodes_expanded >= 2
    /\ ~Reachable

(***************************************************************************)
(* C5: a search from a node to itself returns found, distance 0, the       *)
(* one-node path and zero expansions, at the first pop.                    *)
(***************************************************************************)
C5_StartIsGoal ==
    (pc = "done" /\ start_node = end_node) =>
        /\ result = [found |-> TRUE, distance |-> 0, path |-> <<start_node>>,
                     nodes_expanded |-> 0]
        /\ visited = {start_node}
        /\ pq = <<>> /\ came_from = <<>>

\* both kinds of edges leave the node that is start and goal
C5_Witness ==
    /\ Returned("astar") /\ start_node = end_node
    /\ EdgeWeights(start_node, start_node) # {}
    /\ \E n \in AllNodes \ {start_node} : EdgeWeights(start_node, n) # {}

(***************************************************************************)
(* C6: a returned path is non-empty, starts at start, ends at goal, and    *)
(* each step of it is an edge of the graph.                                *)
(***************************************************************************)
C6_PathIsWalk ==
    (pc = "done" /\ result.found) =>
        LET path == result.path
        IN  /\ Len(path) >= 1
            /\ path[1] = start_node
            /\ path[Len(path)] = end_node
            /\ \A i \in 1..(Len(path) - 1) : EdgeWeights(path[i], path[i + 1]) # {}

\* an A* call returned a path through every node of the wide family
C6_Witness ==
    /\ Returned("astar") /\ result.found
    /\ Len(result.path) = WideNode + 1

(***************************************************************************)
(* C7: run_search never fails with an error, whatever ids it is given:     *)
(* every call ends by returning a record.                                  *)
(***************************************************************************)
C7_NeverRaises == pc # "error"

(***************************************************************************)
(* C8: calculate_heuristic(a, b) is 0 exactly when the row delta and the   *)
(* column delta are both at most 1, positive otherwise, never negative,    *)
(* and equal to calculate_heuristic(b, a).                                 *)
(***************************************************************************)
NearBy(a, b) ==
    /\ Abs((a \div 10) - (b \div 10)) <= 1
    /\ Abs((a % 10) - (b % 10)) <= 1

C8_HeuristicZeroIffNear ==
    pc = "returned" =>
        /\ h_value = 0 <=> NearBy(h_args[1], h_args[2])
        /\ ~NearBy(h_args[1], h_args[2]) => h_value > 0
        /\ h_value >= 0
        /\ h_value = calculate_heuristic(h_args[2], h_args[1])

\* two different squares that touch at a corner
C8_Witness ==
    /\ pc = "returned" /\ h_value = 0
    /\ Abs((h_args[1] \div 10) - (h_args[2] \div 10)) = 1
    /\ Abs((h_args[1] % 10) - (h_args[2] % 10)) = 1

(***************************************************************************)
(* C9 as stated: within one call, once came_from[n] is set it keeps its    *)
(* value.                                                                  *)
(***************************************************************************)
C9_WrittenOnce ==
    [][algorithm' = algorithm =>
         \A n \in DOMAIN came_from :
             n \in DOMAIN came_from' /\ came_from'[n] = came_from[n]]_vars

(***************************************************************************)
(* C9 amended: within one call an entry of came_from is never removed, and *)
(* came_from[n] is set or changed only in a step that discovers n or       *)
(* strictly lowers g_score[n].                                             *)
(***************************************************************************)
C9_WrittenOnImprovement ==
    [][algorithm' = algorithm =>
         /\ DOMAIN came_from \subseteq DOMAIN came_from'
         /\ \A n \in DOMAIN came_from' :
               (n \notin DOMAIN came_from \/ came_from'[n] # came_from[n])
                  => IF n \in DOMAIN g_score THEN g_score'[n] < g_score[n]
                                              ELSE n \in DOMAIN g_score']_vars

\* a node first reached from start now has another parent
C9_Witness ==
    /\ pc = "search"
    /\ \E n \in DOMAIN came_from :
          /\ came_from[n] # start_node
          /\ EdgeWeights(start_node, n) # {}

(***************************************************************************)
(* C10: every call terminates: each loop iteration lowers a natural-valued *)
(* measure, each node is finalized at most once, and in every state        *)
(* came_from has no entry for start and no cycle.                          *)
(***************************************************************************)
RECURSIVE Walk(_, _, _)
\* the node reached from n after at most k steps along cf
Walk(cf, n, k) ==
    IF k = 0 \/ n \notin DOMAIN cf THEN n ELSE Walk(cf, cf[n], k - 1)

Acyclic(cf) ==
    \A n \in DOMAIN cf : Walk(cf, n, Cardinality(DOMAIN cf)) \notin DOMAIN cf

RECURSIVE OutEdges(_)
\* number of edges leaving the nodes of S
OutEdges(S) ==
    IF S = {} THEN 0
    ELSE LET u == CHOOSE x \in S : TRUE
         IN  Len(edges[u]) + OutEdges(S \ {u})

\* queue entries still to pop plus edges still to relax
Measure == Len(pq) + OutEdges((DOMAIN edges) \ visited)

\* finalizations so far in this call
Finalized == nodes_expanded + (IF pc = "done" THEN (IF result.found THEN 1 ELSE 0) ELSE 0)

C10_Inv ==
    pc \in {"search", "done"} =>
        /\ start_node \notin DOMAIN came_from
        /\ Acyclic(came_from)
        /\ Cardinality(visited) = Finalized

C10_Terminates ==
    /\ C10_Inv
    /\ [][/\ C10_Inv'
          /\ (pc = "search" /\ pc' = "search") =>
                /\ Measure' < Measure
                /\ Measure' >= 0
                /\ visited \subseteq visited']_vars

\* an A* call that found its goal past a cycle of zero-weight edges
C10_Witness ==
    /\ Returned("astar") /\ result.found
    /\ \E u \in visited, v \in visited :
          u # v /\ 0 \in EdgeWeights(u, v) /\ 0 \in EdgeWeights(v, u)

(***************************************************************************)
(* C11: a returned distance is the total weight of the returned path,      *)
(* counting the cheapest edge of each step; within one call no step        *)
(* changes the cost or the parent of a finalized node, and every recorded  *)
(* cost is the parent's recorded cost plus the cheapest connecting edge.   *)
(***************************************************************************)
\* the least weight of an edge from u to v
CheapestEdge(u, v) ==
    LET W == EdgeWeights(u, v) IN CHOOSE w \in W : \A x \in W : w <= x

RECURSIVE PathWeight(_)
\* total weight of a path, the cheapest edge taken at each step
PathWeight(path) ==
    IF Len(path) <= 1 THEN 0
    ELSE CheapestEdge(path[1], path[2]) + PathWeight(Tail(path))

C11_StateInv ==
    /\ pc \in {"search", "done"} =>
          \A n \in DOMAIN came_from :
              g_score[n] = g_score[came_from[n]] + CheapestEdge(came_from[n], n)
    /\ (pc = "done" /\ result.found) => result.distance = PathWeight(result.path)

C11_DistanceIsPathWeight ==
    /\ C11_StateInv
    /\ [][/\ C11_StateInv'
          /\ algorithm' = algorithm =>
                \A n \in visited :
                    /\ g_score'[n] = g_score[n]
                    /\ (n \in DOMAIN came_from =>
                          n \in DOMAIN came_from' /\ came_from'[n] = came_from[n])]_vars

\* the same statement for the "dijkstra" call alone
C11_DijkstraOnly ==
    /\ algorithm = "dijkstra" => C11_StateInv
    /\ [][(algorithm = "dijkstra" /\ algorithm' = "dijkstra") =>
             /\ C11_StateInv'
             /\ \A n \in visited :
                    /\ g_score'[n] = g_score[n]
                    /\ (n \in DOMAIN came_from =>
                          n \in DOMAIN came_from' /\ came_from'[n] = came_from[n])]_vars

====
